---- MODULE Spec2Model ----
(***************************************************************************)
(* Model of the bakery inventory canister (lib.rs): the persistent id      *)
(* counter cell, the stable map of Product records and the seven           *)
(* query/update entry points.  One action per entry point; the runtime     *)
(* delivers one call at a time and runs it to completion, so each action   *)
(* is the whole handler.                                                   *)
(***************************************************************************)
EXTENDS Integers, Sequences, FiniteSets, TLC

\* ---------------------------------------------------------------- bounds
MaxId == 2          \* add_product is explored while the counter is below this
MaxTime == 1        \* the clock is explored up to this value
MaxQty == 1         \* small quantities and amounts explored: 0..MaxQty
MaxLive == 2        \* add_product is explored while fewer records than this are live

\* ------------------------------------------------------ program constants
\* A u32 is kept at its full width as two 16-bit limbs <<hi, lo>>, with value
\* hi * 2^16 + lo: TLC's integers stop at 2^31 - 1, below the u32 maximum.
Limb == 65536
u32(n) == <<n \div Limb, n % Limb>>
U32Max == <<Limb - 1, Limb - 1>>
u32_is_zero(a) == a[1] = 0 /\ a[2] = 0
u32_lt(a, b) == a[1] < b[1] \/ (a[1] = b[1] /\ a[2] < b[2])
u32_gt(a, b) == u32_lt(b, a)
u32_le(a, b) == ~u32_lt(b, a)
u32_add_overflows(a, b) == a[1] + b[1] + ((a[2] + b[2]) \div Limb) >= Limb
u32_wrapping_add(a, b) ==
    <<(a[1] + b[1] + ((a[2] + b[2]) \div Limb)) % Limb, (a[2] + b[2]) % Limb>>
u32_wrapping_sub(a, b) ==
    <<(a[1] - b[1] - (IF a[2] < b[2] THEN 1 ELSE 0)) % Limb, (a[2] - b[2]) % Limb>>

\* ---------------------------------------------------------- input domains
Category == {"Bakery", "Cake", "Cookies"}
\* A name is the sequence of the Unicode code points of its characters.
\* str::trim strips the characters with the White_Space property:
\* U+0009..U+000D, U+0020, U+0085, U+00A0, U+1680, U+2000..U+200A, U+2028,
\* U+2029, U+202F, U+205F and U+3000.
Whitespace ==
    (9..13) \cup {32, 133, 160, 5760} \cup (8192..8202)
        \cup {8232, 8233, 8239, 8287, 12288}
\* The explored names, each with one category: "", " \r", "a" and " b".
NameCategory == {<< <<>>, "Cake" >>, << <<32, 13>>, "Bakery" >>,
                 << <<97>>, "Bakery" >>, << <<32, 98>>, "Cookies" >>}
SmallU32 == {u32(n) : n \in 0..MaxQty}
Quantities == SmallU32 \cup {U32Max}
Amounts == SmallU32 \cup {U32Max}
Ids == 0..MaxId
ProductPayloads ==
    {[name |-> nc[1], quantity |-> q, category |-> nc[2]] :
        nc \in {x \in NameCategory : x[2] \in Category}, q \in Quantities}
StockPayloads == {[amount |-> a] : a \in Amounts}
\* stock adjustments are explored while the stored quantity stays in this set:
\* the small quantities and those as close to the u32 maximum
QtyWindow == SmallU32 \cup {u32_wrapping_sub(U32Max, a) : a \in SmallU32}

VARIABLES counter, storage, now, last, issued, retired, touched, cells

vars == <<counter, storage, now, last, issued, retired, touched, cells>>

\* Option<T>: None is the empty sequence, Some(v) the one-element sequence.
None == <<>>
Some(v) == <<v>>

\* ------------------------------------------------------------ validation
RECURSIVE trim_start(_)
trim_start(s) ==
    IF Len(s) > 0 /\ Head(s) \in Whitespace THEN trim_start(Tail(s)) ELSE s

RECURSIVE trim_end(_)
trim_end(s) ==
    IF Len(s) > 0 /\ s[Len(s)] \in Whitespace
    THEN trim_end(SubSeq(s, 1, Len(s) - 1))
    ELSE s

trim(s) == trim_end(trim_start(s))

is_empty(s) == Len(s) = 0

\* Validation that tests the raw name for emptiness, without trimming.
validate_product_payload_no_trim(payload) ==
    IF is_empty(payload.name) THEN "InvalidOperation"
    ELSE IF u32_is_zero(payload.quantity) THEN "InvalidOperation"
    ELSE "Ok"

\* Validation without the quantity rule.
validate_product_payload_allows_zero(payload) ==
    IF is_empty(trim(payload.name)) THEN "InvalidOperation"
    ELSE "Ok"

validate_product_payload(payload) ==
    IF is_empty(trim(payload.name)) THEN "InvalidOperation"
    ELSE IF u32_is_zero(payload.quantity) THEN "InvalidOperation"
    ELSE "Ok"

\* Stock validation that accepts every amount.
validate_stock_payload_lenient(payload) == "Ok"

validate_stock_payload(payload) ==
    IF u32_is_zero(payload.amount) THEN "InvalidOperation" ELSE "Ok"

\* ----------------------------------------------------------------- codec
\* The map holds each Product in serialized form: the sequence of its field
\* values.  Names here are far below the 1024-byte bound of the encoding.
\* An encoder that stores the trimmed name.
to_bytes_trimmed_name(product) ==
    <<product.id, trim(product.name), product.category, product.quantity,
      product.created_at, product.updated_at>>

to_bytes(product) ==
    <<product.id, product.name, product.category, product.quantity,
      product.created_at, product.updated_at>>

from_bytes(bytes) ==
    [id |-> bytes[1], name |-> bytes[2], category |-> bytes[3],
     quantity |-> bytes[4], created_at |-> bytes[5], updated_at |-> bytes[6]]

\* ------------------------------------------------------------ repository
map_get(map, id) ==
    IF id \in DOMAIN map THEN Some(from_bytes(map[id])) ELSE None

_get_product(id) == map_get(storage, id)

map_insert(map, key, product) ==
    [k \in (DOMAIN map) \cup {key} |->
        IF k = key THEN to_bytes(product) ELSE map[k]]

\* An insert under the key after the record's id.
do_insert_keyed_off_by_one(map, product) == map_insert(map, product.id + 1, product)

do_insert(map, product) == map_insert(map, product.id, product)

\* A removal that leaves the entry in the map.
map_remove_keeps_entry(map, id) == map

\* A removal that empties the map.
map_remove_clears_all(map, id) == [k \in {} |-> map[k]]

map_remove(map, id) == [k \in (DOMAIN map) \ {id} |-> map[k]]

\* A cell whose write is lost: the old value stays and is handed back.
cell_set_lost_write(cell, value) == [cell |-> cell, returned |-> cell]

\* A cell whose set hands back the value just written.
cell_set_returns_new(cell, value) == [cell |-> value, returned |-> value]

\* Cell::set stores the new value and hands back the value it replaced.
cell_set(cell, value) == [cell |-> value, returned |-> cell]

\* -------------------------------------------------------------- RefCell
\* Each cell carries the RefCell borrow flag: 0 free, n > 0 shared borrows,
\* -1 one mutable borrow.  A borrow that the flag forbids panics.
Borrow(cell) == <<"borrow", cell>>
BorrowMut(cell) == <<"borrow_mut", cell>>
Drop(cell) == <<"drop", cell>>

ref_cell_step(c, event) ==
    IF c.panicked THEN c
    ELSE IF event[1] = "borrow"
    THEN IF c[event[2]] < 0
         THEN [c EXCEPT !.panicked = TRUE]
         ELSE [c EXCEPT ![event[2]] = @ + 1]
    ELSE IF event[1] = "borrow_mut"
    THEN IF c[event[2]] # 0
         THEN [c EXCEPT !.panicked = TRUE]
         ELSE [c EXCEPT ![event[2]] = -1]
    ELSE [c EXCEPT ![event[2]] = IF @ > 0 THEN @ - 1 ELSE 0]

RECURSIVE run_borrows(_, _)
run_borrows(c, events) ==
    IF events = <<>> THEN c
    ELSE run_borrows(ref_cell_step(c, Head(events)), Tail(events))

\* service.borrow().get(id): the Ref lives until the closure returns.
storage_get_borrows == <<Borrow("STORAGE"), Drop("STORAGE")>>

\* service.borrow_mut().insert(..) in do_insert.
do_insert_borrows == <<BorrowMut("STORAGE"), Drop("STORAGE")>>

\* service.borrow_mut().remove(id) in remove_product.
map_remove_borrows == <<BorrowMut("STORAGE"), Drop("STORAGE")>>

\* An allocation that still holds the read borrow when it takes the write one.
next_id_borrows_read_held ==
    <<Borrow("ID_COUNTER"), BorrowMut("ID_COUNTER"),
      Drop("ID_COUNTER"), Drop("ID_COUNTER")>>

\* The counter is read under a shared borrow that ends with its statement,
\* then written under a mutable borrow.
next_id_borrows ==
    <<Borrow("ID_COUNTER"), Drop("ID_COUNTER"),
      BorrowMut("ID_COUNTER"), Drop("ID_COUNTER")>>

add_product_borrows(product) ==
    IF validate_product_payload(product) # "Ok" THEN <<>>
    ELSE next_id_borrows \o do_insert_borrows

update_product_borrows(id, payload) ==
    IF validate_product_payload(payload) # "Ok" THEN <<>>
    ELSE IF _get_product(id) # None
    THEN storage_get_borrows \o do_insert_borrows
    ELSE storage_get_borrows

add_quantity_borrows(id, payload, overflow_checks) ==
    IF validate_stock_payload(payload) # "Ok" THEN <<>>
    ELSE IF _get_product(id) # None
            /\ ~(u32_add_overflows(_get_product(id)[1].quantity, payload.amount)
                 /\ overflow_checks)
    THEN storage_get_borrows \o do_insert_borrows
    ELSE storage_get_borrows

offload_quantity_borrows(id, payload) ==
    IF validate_stock_payload(payload) # "Ok" THEN <<>>
    ELSE IF _get_product(id) # None
            /\ ~u32_is_zero(_get_product(id)[1].quantity)
            /\ ~u32_gt(payload.amount, _get_product(id)[1].quantity)
    THEN storage_get_borrows \o do_insert_borrows
    ELSE storage_get_borrows

Call(op, id, payload, kind, val) ==
    [op |-> op, id |-> id, payload |-> payload, kind |-> kind, val |-> val]

NoPayload == <<>>

Init ==
    /\ counter = 0
    /\ storage = <<>>
    /\ now = 0
    /\ last = Call("init", 0, NoPayload, "Ok", None)
    /\ issued = <<>>
    /\ retired = {}
    /\ touched = {}
    /\ cells = [ID_COUNTER |-> 0, STORAGE |-> 0, panicked |-> FALSE]

\* The clock of the hosting runtime moves forward between calls.
Tick ==
    /\ now < MaxTime
    /\ now' = now + 1
    /\ UNCHANGED <<counter, storage, last, issued, retired, touched, cells>>

get_product(id) ==
    /\ cells' = run_borrows(cells, storage_get_borrows)
    /\ last' = (IF _get_product(id) # None
                THEN Call("get_product", id, NoPayload, "Ok", _get_product(id))
                ELSE Call("get_product", id, NoPayload, "NotFound", None))
    /\ UNCHANGED <<counter, storage, now, issued, retired, touched>>

get_stock(id) ==
    /\ cells' = run_borrows(cells, storage_get_borrows)
    /\ last' = (IF _get_product(id) # None
                THEN Call("get_stock", id, NoPayload, "Ok", Some(_get_product(id)[1].quantity))
                ELSE Call("get_stock", id, NoPayload, "NotFound", None))
    /\ UNCHANGED <<counter, storage, now, issued, retired, touched>>

add_product(product) ==
    /\ cells' = run_borrows(cells, add_product_borrows(product))
    /\ IF validate_product_payload(product) # "Ok"
       THEN /\ last' = Call("add_product", 0, product, validate_product_payload(product), None)
            /\ UNCHANGED <<counter, storage, now, issued, retired, touched>>
       ELSE /\ counter < MaxId
            /\ Cardinality(DOMAIN storage) < MaxLive
            /\ LET set == cell_set(counter, counter + 1)
                   item == [id |-> set.returned,
                            name |-> product.name,
                            category |-> product.category,
                            quantity |-> product.quantity,
                            created_at |-> now,
                            updated_at |-> None]
               IN /\ counter' = set.cell
                  /\ storage' = do_insert(storage, item)
                  /\ last' = Call("add_product", 0, product, "Ok", Some(item))
                  /\ issued' = Append(issued, item.id)
            /\ UNCHANGED <<now, retired, touched>>

\* update_product that inserts a new record when the id has none.
update_product_upsert(id, payload) ==
    /\ cells' = run_borrows(cells, update_product_borrows(id, payload))
    /\ IF validate_product_payload(payload) # "Ok"
       THEN /\ last' = Call("update_product", id, payload, validate_product_payload(payload), None)
            /\ UNCHANGED <<counter, storage, now, issued, retired, touched>>
       ELSE LET base == IF _get_product(id) # None
                        THEN _get_product(id)[1]
                        ELSE [id |-> id, name |-> <<>>, category |-> "Bakery",
                              quantity |-> u32(0), created_at |-> 0, updated_at |-> None]
                product == [base EXCEPT
                               !.name = payload.name,
                               !.category = payload.category,
                               !.quantity = payload.quantity,
                               !.updated_at = Some(now)]
            IN /\ storage' = do_insert(storage, product)
               /\ last' = Call("update_product", id, payload, "Ok", Some(product))
               /\ touched' = touched \cup {id}
               /\ UNCHANGED <<counter, now, issued, retired>>

\* update_product that stamps created_at as well.
update_product_resets_created_at(id, payload) ==
    /\ cells' = run_borrows(cells, update_product_borrows(id, payload))
    /\ IF validate_product_payload(payload) # "Ok"
       THEN /\ last' = Call("update_product", id, payload, validate_product_payload(payload), None)
            /\ UNCHANGED <<counter, storage, now, issued, retired, touched>>
       ELSE IF _get_product(id) # None
       THEN LET product == [_get_product(id)[1] EXCEPT
                               !.name = payload.name,
                               !.category = payload.category,
                               !.quantity = payload.quantity,
                               !.created_at = now,
                               !.updated_at = Some(now)]
            IN /\ storage' = do_insert(storage, product)
               /\ last' = Call("update_product", id, payload, "Ok", Some(product))
               /\ touched' = touched \cup {id}
               /\ UNCHANGED <<counter, now, issued, retired>>
       ELSE /\ last' = Call("update_product", id, payload, "NotFound", None)
            /\ UNCHANGED <<counter, storage, now, issued, retired, touched>>

update_product(id, payload) ==
    /\ cells' = run_borrows(cells, update_product_borrows(id, payload))
    /\ IF validate_product_payload(payload) # "Ok"
       THEN /\ last' = Call("update_product", id, payload, validate_product_payload(payload), None)
            /\ UNCHANGED <<counter, storage, now, issued, retired, touched>>
       ELSE IF _get_product(id) # None
       THEN LET product == [_get_product(id)[1] EXCEPT
                               !.name = payload.name,
                               !.category = payload.category,
                               !.quantity = payload.quantity,
                               !.updated_at = Some(now)]
            IN /\ storage' = do_insert(storage, product)
               /\ last' = Call("update_product", id, payload, "Ok", Some(product))
               /\ touched' = touched \cup {id}
               /\ UNCHANGED <<counter, now, issued, retired>>
       ELSE /\ last' = Call("update_product", id, payload, "NotFound", None)
            /\ UNCHANGED <<counter, storage, now, issued, retired, touched>>

\* add_quantity that assigns the amount instead of adding it.
add_quantity_overwrites(id, payload, overflow_checks) ==
    /\ cells' = run_borrows(cells, add_quantity_borrows(id, payload, overflow_checks))
    /\ IF validate_stock_payload(payload) # "Ok"
       THEN /\ last' = Call("add_quantity", id, payload, validate_stock_payload(payload), None)
            /\ UNCHANGED <<counter, storage, now, issued, retired, touched>>
       ELSE IF _get_product(id) # None
       THEN LET found == _get_product(id)[1]
            IN IF u32_add_overflows(found.quantity, payload.amount) /\ overflow_checks
               THEN /\ last' = Call("add_quantity", id, payload, "Trap", None)
                    /\ UNCHANGED <<counter, storage, now, issued, retired, touched>>
               ELSE LET product == [found EXCEPT
                                       !.quantity = payload.amount,
                                       !.updated_at = Some(now)]
                    IN /\ product.quantity \in QtyWindow
                       /\ storage' = do_insert(storage, product)
                       /\ last' = Call("add_quantity", id, payload, "Ok", Some(product))
                       /\ touched' = touched \cup {id}
                       /\ UNCHANGED <<counter, now, issued, retired>>
       ELSE /\ last' = Call("add_quantity", id, payload, "NotFound", None)
            /\ UNCHANGED <<counter, storage, now, issued, retired, touched>>

\* add_quantity that leaves updated_at as it was.
add_quantity_no_stamp(id, payload, overflow_checks) ==
    /\ cells' = run_borrows(cells, add_quantity_borrows(id, payload, overflow_checks))
    /\ IF validate_stock_payload(payload) # "Ok"
       THEN /\ last' = Call("add_quantity", id, payload, validate_stock_payload(payload), None)
            /\ UNCHANGED <<counter, storage, now, issued, retired, touched>>
       ELSE IF _get_product(id) # None
       THEN LET found == _get_product(id)[1]
            IN IF u32_add_overflows(found.quantity, payload.amount) /\ overflow_checks
               THEN /\ last' = Call("add_quantity", id, payload, "Trap", None)
                    /\ UNCHANGED <<counter, storage, now, issued, retired, touched>>
               ELSE LET product == [found EXCEPT
                                       !.quantity = u32_wrapping_add(found.quantity, payload.amount)]
                    IN /\ product.quantity \in QtyWindow
                       /\ storage' = do_insert(storage, product)
                       /\ last' = Call("add_quantity", id, payload, "Ok", Some(product))
                       /\ touched' = touched \cup {id}
                       /\ UNCHANGED <<counter, now, issued, retired>>
       ELSE /\ last' = Call("add_quantity", id, payload, "NotFound", None)
            /\ UNCHANGED <<counter, storage, now, issued, retired, touched>>

\* `quantity += amount` on u32: a build with overflow checks panics (the call
\* traps and its changes are rolled back), a build without them wraps.
add_quantity(id, payload, overflow_checks) ==
    /\ cells' = run_borrows(cells, add_quantity_borrows(id, payload, overflow_checks))
    /\ IF validate_stock_payload(payload) # "Ok"
       THEN /\ last' = Call("add_quantity", id, payload, validate_stock_payload(payload), None)
            /\ UNCHANGED <<counter, storage, now, issued, retired, touched>>
       ELSE IF _get_product(id) # None
       THEN LET found == _get_product(id)[1]
            IN IF u32_add_overflows(found.quantity, payload.amount) /\ overflow_checks
               THEN /\ last' = Call("add_quantity", id, payload, "Trap", None)
                    /\ UNCHANGED <<counter, storage, now, issued, retired, touched>>
               ELSE LET product == [found EXCEPT
                                       !.quantity = u32_wrapping_add(found.quantity, payload.amount),
                                       !.updated_at = Some(now)]
                    IN /\ product.quantity \in QtyWindow
                       /\ storage' = do_insert(storage, product)
                       /\ last' = Call("add_quantity", id, payload, "Ok", Some(product))
                       /\ touched' = touched \cup {id}
                       /\ UNCHANGED <<counter, now, issued, retired>>
       ELSE /\ last' = Call("add_quantity", id, payload, "NotFound", None)
            /\ UNCHANGED <<counter, storage, now, issued, retired, touched>>

\* offload_quantity without the zero check and the amount check.
offload_quantity_unguarded(id, payload) ==
    /\ cells' = run_borrows(cells, offload_quantity_borrows(id, payload))
    /\ IF validate_stock_payload(payload) # "Ok"
       THEN /\ last' = Call("offload_quantity", id, payload, validate_stock_payload(payload), None)
            /\ UNCHANGED <<counter, storage, now, issued, retired, touched>>
       ELSE IF _get_product(id) # None
       THEN LET found == _get_product(id)[1]
                product == [found EXCEPT
                               !.quantity = u32_wrapping_sub(found.quantity, payload.amount),
                               !.updated_at = Some(now)]
            IN /\ product.quantity \in QtyWindow
               /\ storage' = do_insert(storage, product)
               /\ last' = Call("offload_quantity", id, payload, "Ok", Some(product))
               /\ touched' = touched \cup {id}
               /\ UNCHANGED <<counter, now, issued, retired>>
       ELSE /\ last' = Call("offload_quantity", id, payload, "NotFound", None)
            /\ UNCHANGED <<counter, storage, now, issued, retired, touched>>

\* offload_quantity that stamps and stores the record before its checks.
offload_quantity_stamps_first(id, payload) ==
    /\ cells' = run_borrows(cells, offload_quantity_borrows(id, payload))
    /\ IF validate_stock_payload(payload) # "Ok"
       THEN /\ last' = Call("offload_quantity", id, payload, validate_stock_payload(payload), None)
            /\ UNCHANGED <<counter, storage, now, issued, retired, touched>>
       ELSE IF _get_product(id) # None
       THEN LET found == [_get_product(id)[1] EXCEPT !.updated_at = Some(now)]
            IN IF u32_is_zero(found.quantity) \/ u32_gt(payload.amount, found.quantity)
               THEN /\ storage' = do_insert(storage, found)
                    /\ last' = Call("offload_quantity", id, payload, "InvalidOperation", None)
                    /\ touched' = touched \cup {id}
                    /\ UNCHANGED <<counter, now, issued, retired>>
               ELSE LET product == [found EXCEPT
                                       !.quantity = u32_wrapping_sub(found.quantity, payload.amount)]
                    IN /\ product.quantity \in QtyWindow
                       /\ storage' = do_insert(storage, product)
                       /\ last' = Call("offload_quantity", id, payload, "Ok", Some(product))
                       /\ touched' = touched \cup {id}
                       /\ UNCHANGED <<counter, now, issued, retired>>
       ELSE /\ last' = Call("offload_quantity", id, payload, "NotFound", None)
            /\ UNCHANGED <<counter, storage, now, issued, retired, touched>>

offload_quantity(id, payload) ==
    /\ cells' = run_borrows(cells, offload_quantity_borrows(id, payload))
    /\ IF validate_stock_payload(payload) # "Ok"
       THEN /\ last' = Call("offload_quantity", id, payload, validate_stock_payload(payload), None)
            /\ UNCHANGED <<counter, storage, now, issued, retired, touched>>
       ELSE IF _get_product(id) # None
       THEN LET found == _get_product(id)[1]
            IN IF u32_is_zero(found.quantity)
               THEN /\ last' = Call("offload_quantity", id, payload, "InvalidOperation", None)
                    /\ UNCHANGED <<counter, storage, now, issued, retired, touched>>
               ELSE IF u32_gt(payload.amount, found.quantity)
               THEN /\ last' = Call("offload_quantity", id, payload, "InvalidOperation", None)
                    /\ UNCHANGED <<counter, storage, now, issued, retired, touched>>
               ELSE LET product == [found EXCEPT
                                       !.quantity = u32_wrapping_sub(found.quantity, payload.amount),
                                       !.updated_at = Some(now)]
                    IN /\ product.quantity \in QtyWindow
                       /\ storage' = do_insert(storage, product)
                       /\ last' = Call("offload_quantity", id, payload, "Ok", Some(product))
                       /\ touched' = touched \cup {id}
                       /\ UNCHANGED <<counter, now, issued, retired>>
       ELSE /\ last' = Call("offload_quantity", id, payload, "NotFound", None)
            /\ UNCHANGED <<counter, storage, now, issued, retired, touched>>

\* remove_product that hands the last id back to the counter.
remove_product_rewinds_counter(id) ==
    /\ cells' = run_borrows(cells, map_remove_borrows)
    /\ IF map_get(storage, id) # None
       THEN /\ storage' = map_remove(storage, id)
            /\ last' = Call("remove_product", id, NoPayload, "Ok", map_get(storage, id))
            /\ retired' = retired \cup {id}
            /\ touched' = touched \ {id}
            /\ counter' = counter - 1
            /\ UNCHANGED <<now, issued>>
       ELSE /\ last' = Call("remove_product", id, NoPayload, "NotFound", None)
            /\ UNCHANGED <<counter, storage, now, issued, retired, touched>>

remove_product(id) ==
    /\ cells' = run_borrows(cells, map_remove_borrows)
    /\ IF map_get(storage, id) # None
       THEN /\ storage' = map_remove(storage, id)
            /\ last' = Call("remove_product", id, NoPayload, "Ok", map_get(storage, id))
            /\ retired' = retired \cup {id}
            /\ touched' = touched \ {id}
            /\ UNCHANGED <<counter, now, issued>>
       ELSE /\ last' = Call("remove_product", id, NoPayload, "NotFound", None)
            /\ UNCHANGED <<counter, storage, now, issued, retired, touched>>

Next ==
    \/ Tick
    \/ \E id \in Ids : get_product(id)
    \/ \E id \in Ids : get_stock(id)
    \/ \E product \in ProductPayloads : add_product(product)
    \/ \E id \in Ids, payload \in ProductPayloads : update_product(id, payload)
    \/ \E id \in Ids, payload \in StockPayloads, overflow_checks \in BOOLEAN :
          add_quantity(id, payload, overflow_checks)
    \/ \E id \in Ids, payload \in StockPayloads : offload_quantity(id, payload)
    \/ \E id \in Ids : remove_product(id)

Spec == Init /\ [][Next]_vars

\* ------------------------------------------------------------ properties
\* A step is a call of `op` when it records that call; the clock stands
\* still during a call and is the only thing Tick changes.
CallStep(op) == now' = now /\ last'.op = op

Live == DOMAIN storage
RecIn(map, id) == from_bytes(map[id])
Rec(id) == RecIn(storage, id)
Returned == last.val[1]

\* C1: every successful add_product returns an id strictly greater than the
\* id returned by every earlier successful add_product (issued lists the
\* returned ids in call order), so no id is returned twice, removals or not.
C1_MonotonicIds ==
    \A i \in 1..Len(issued) : \A j \in 1..Len(issued) :
        i < j => issued[i] < issued[j]

\* two ids were issued and a record was removed before the second add_product
C1_Witness ==
    /\ Len(issued) >= 2
    /\ last.op = "add_product" /\ last.kind = "Ok"
    /\ retired # {}

\* C2: a successful offload_quantity(id, amount) on a record of quantity Q
\* had amount <= Q before the call, and afterwards the stored quantity plus
\* amount is exactly Q with no carry out of 32 bits (so it is Q - amount and
\* never a wrapped value).
C2_OffloadNeverUnderflows ==
    [][(CallStep("offload_quantity") /\ last'.kind = "Ok") =>
          /\ last'.id \in Live
          /\ last'.id \in Live'
          /\ u32_le(last'.payload.amount, Rec(last'.id).quantity)
          /\ ~u32_add_overflows(RecIn(storage', last'.id).quantity, last'.payload.amount)
          /\ u32_wrapping_add(RecIn(storage', last'.id).quantity, last'.payload.amount)
                = Rec(last'.id).quantity]_vars

\* an offload of the whole stock succeeded and left quantity 0
C2_Witness ==
    /\ last.op = "offload_quantity" /\ last.kind = "Ok"
    /\ last.id \in Live
    /\ u32_is_zero(Rec(last.id).quantity)
    /\ ~u32_is_zero(last.payload.amount)

\* C3 as stated: the record returned by the latest successful add_product
\* carries the counter's value after the increment, and the first id is 1.
C3_IdIsNewCounterValue ==
    (last.op = "add_product" /\ last.kind = "Ok") =>
        /\ Returned.id = counter
        /\ (Len(issued) = 1 => Returned.id = 1)

\* C3 amended: the record returned by the latest successful add_product
\* carries the counter's value before the increment (the counter is then
\* one above it), and the first id issued on a fresh store is 0.
C3_IdIsPreviousCounterValue ==
    (last.op = "add_product" /\ last.kind = "Ok") =>
        /\ Returned.id + 1 = counter
        /\ Returned.id = issued[Len(issued)]
        /\ issued[1] = 0

\* the first add_product on the fresh store has just returned
C3_Witness ==
    /\ last.op = "add_product" /\ last.kind = "Ok"
    /\ Len(issued) = 1
    /\ counter = 1

\* What the validation rules call an invalid payload, stated on the payload.
IsBlank(name) == \A i \in 1..Len(name) : name[i] \in Whitespace
InvalidProductPayload(payload) == IsBlank(payload.name) \/ payload.quantity = <<0, 0>>
InvalidStockPayload(payload) == payload.amount = <<0, 0>>
InvalidPayload(call) ==
    IF call.op = "update_product"
    THEN InvalidProductPayload(call.payload)
    ELSE InvalidStockPayload(call.payload)

Adjusters == {"update_product", "add_quantity", "offload_quantity"}

\* C4 as stated: update_product, add_quantity and offload_quantity called
\* with an id that has no live record return NotFound for every payload,
\* invalid ones included.
C4_NotFoundBeforeValidation ==
    (last.op \in Adjusters /\ last.id \notin Live) => last.kind = "NotFound"

\* C4 amended: the three operations validate the payload before they look
\* the record up; with an id that has no live record they return
\* InvalidOperation when the payload is invalid (blank name, quantity 0 or
\* amount 0) and NotFound for every valid payload.
C4_ValidationBeforeNotFound ==
    (last.op \in Adjusters /\ last.id \notin Live) =>
        last.kind = (IF InvalidPayload(last) THEN "InvalidOperation" ELSE "NotFound")

\* add_quantity with amount 0 on an id without a record was just rejected
C4_Witness ==
    /\ last.op = "add_quantity"
    /\ last.id \notin Live
    /\ InvalidStockPayload(last.payload)
    /\ last.kind = "InvalidOperation"

\* C5: add_quantity adds with an overflow check: when quantity + amount does
\* not fit in 32 bits the call aborts and the map is unchanged, and every
\* successful add_quantity leaves the quantity strictly greater than before.
C5_CheckedAddition ==
    [][(CallStep("add_quantity") /\ last'.id \in Live
            /\ ~InvalidStockPayload(last'.payload)) =>
          /\ u32_add_overflows(Rec(last'.id).quantity, last'.payload.amount)
                => (last'.kind = "Trap" /\ storage' = storage)
          /\ last'.kind = "Ok"
                => u32_gt(RecIn(storage', last'.id).quantity, Rec(last'.id).quantity)]_vars

\* C6: an add_product whose name is blank after trimming or whose quantity
\* is 0 returns InvalidOperation, creates no record and leaves the counter
\* at its previous value.
C6_RejectedAddConsumesNothing ==
    [][(CallStep("add_product") /\ InvalidProductPayload(last'.payload)) =>
          /\ last'.kind = "InvalidOperation"
          /\ storage' = storage
          /\ counter' = counter
          /\ issued' = issued]_vars

\* a whitespace-only name with a positive quantity was rejected on a store
\* that already holds a record
C6_Witness ==
    /\ last.op = "add_product" /\ last.kind = "InvalidOperation"
    /\ last.payload.name = <<32, 13>>
    /\ last.payload.quantity # <<0, 0>>
    /\ counter = 1 /\ Live = {0}

\* C7: an update_product, add_quantity, offload_quantity or remove_product
\* call that returns NotFound or InvalidOperation leaves the record map and
\* the counter exactly as they were.
C7_FailedCallChangesNothing ==
    [][((\E op \in Adjusters \cup {"remove_product"} : CallStep(op))
            /\ last'.kind \in {"NotFound", "InvalidOperation"}) =>
          (storage' = storage /\ counter' = counter)]_vars

\* an offload was rejected because the amount exceeds a non-zero quantity
C7_Witness ==
    /\ last.op = "offload_quantity" /\ last.kind = "InvalidOperation"
    /\ last.id \in Live
    /\ ~u32_is_zero(Rec(last.id).quantity)
    /\ u32_gt(last.payload.amount, Rec(last.id).quantity)

\* C8: an id whose remove_product succeeded stays retired: it has no record,
\* get_product and get_stock on it return NotFound, no add_product returns
\* it, and update_product, add_quantity and offload_quantity on it never
\* succeed.
C8_RetiredForever ==
    /\ retired \cap Live = {}
    /\ (last.op \in {"get_product", "get_stock"} /\ last.id \in retired)
          => last.kind = "NotFound"
    /\ (last.op = "add_product" /\ last.kind = "Ok") => Returned.id \notin retired
    /\ (last.op \in Adjusters /\ last.id \in retired) => last.kind # "Ok"

\* a valid update_product was tried on a removed id after a later add_product
C8_Witness ==
    /\ last.op = "update_product"
    /\ last.id \in retired
    /\ ~InvalidProductPayload(last.payload)
    /\ Live # {}

\* C9: get_product called with the id of the record add_product has just
\* returned, with no call in between, returns a record equal to it in every
\* field.
C9_CreateGetRoundTrip ==
    [][(last.op = "add_product" /\ last.kind = "Ok"
            /\ CallStep("get_product") /\ last'.id = last.val[1].id) =>
          /\ last'.kind = "Ok"
          /\ last'.val = last.val
          /\ \A f \in {"id", "name", "category", "quantity", "created_at", "updated_at"} :
                last'.val[1][f] = last.val[1][f]]_vars

\* get_product returned the newest record, which nothing has modified yet and
\* whose name has surrounding whitespace
C9_Witness ==
    /\ last.op = "get_product" /\ last.kind = "Ok"
    /\ Returned.id + 1 = counter
    /\ Returned.updated_at = None
    /\ Returned.name = <<32, 98>>

\* C10: remove_product on a live record deletes it and returns the record as
\* it was stored; a remove_product of the same id right after returns
\* NotFound and changes nothing, and a get_product of it returns NotFound.
C10_RemoveThenRemove ==
    [][/\ (CallStep("remove_product") /\ last'.id \in Live) =>
              /\ last'.kind = "Ok"
              /\ last'.val = Some(Rec(last'.id))
              /\ last'.id \notin Live'
       /\ (last.op = "remove_product" /\ last.kind = "Ok"
              /\ CallStep("remove_product") /\ last'.id = last.id) =>
              /\ last'.kind = "NotFound"
              /\ storage' = storage
              /\ counter' = counter
       /\ (last.op = "remove_product" /\ last.kind = "Ok"
              /\ CallStep("get_product") /\ last'.id = last.id) =>
              last'.kind = "NotFound"]_vars

\* the second remove_product of an id was answered NotFound while another
\* record is live
C10_Witness ==
    /\ last.op = "remove_product" /\ last.kind = "NotFound"
    /\ last.id \in retired
    /\ Live # {}

\* x + a = y in the naturals: the 32-bit sum has no carry out and equals y.
ExactSum(x, a, y) == ~u32_add_overflows(x, a) /\ u32_wrapping_add(x, a) = y

QuantityBefore(id) == Rec(id).quantity
QuantityAfter(id) == RecIn(storage', id).quantity

\* C11: on a live record of quantity Q, offload_quantity(id, A) with
\* 0 < A <= Q succeeds and stores Q - A, and an add_quantity(id, A) issued
\* directly after it succeeds and stores that quantity plus A, which is Q.
C11_OffloadThenAddRestores ==
    [][/\ (CallStep("offload_quantity") /\ last'.id \in Live
              /\ ~InvalidStockPayload(last'.payload)
              /\ u32_le(last'.payload.amount, QuantityBefore(last'.id))) =>
              /\ last'.kind = "Ok"
              /\ ExactSum(QuantityAfter(last'.id), last'.payload.amount,
                          QuantityBefore(last'.id))
       /\ (last.op = "offload_quantity" /\ last.kind = "Ok"
              /\ CallStep("add_quantity")
              /\ last'.id = last.id /\ last'.payload = last.payload) =>
              /\ last'.kind = "Ok"
              /\ ExactSum(QuantityBefore(last'.id), last'.payload.amount,
                          QuantityAfter(last'.id))]_vars

\* an amount of 1 was added back to a record that is at the u32 maximum
\* again, after an offload of part of its stock
C11_Witness ==
    /\ last.op = "add_quantity" /\ last.kind = "Ok"
    /\ last.payload.amount = u32(1)
    /\ Returned.quantity = U32Max
    /\ Rec(last.id).quantity = U32Max

\* C12: add_product, update_product and add_quantity never produce a record
\* with quantity 0, and a live record with quantity 0 has had a successful
\* mutation since its creation.
C12_ZeroOnlyByOffload ==
    /\ (last.kind = "Ok" /\ last.op \in {"add_product", "update_product", "add_quantity"})
          => ~u32_is_zero(Returned.quantity)
    /\ \A id \in Live : u32_is_zero(Rec(id).quantity) => id \in touched

\* C13: calls run one at a time, so every successful add_quantity raises the
\* stored quantity by exactly its amount, every successful offload_quantity
\* lowers it by exactly its amount, and a call that does not succeed leaves
\* the map as it was; the stored quantity is then the initial quantity plus
\* the successful additions minus the successful offloads.
C13_QuantityIsLedger ==
    [][\A op \in {"add_quantity", "offload_quantity"} :
          (CallStep(op) /\ last'.id \in Live) =>
             IF last'.kind = "Ok"
             THEN /\ op = "add_quantity" =>
                        ExactSum(QuantityBefore(last'.id), last'.payload.amount,
                                 QuantityAfter(last'.id))
                  /\ op = "offload_quantity" =>
                        ExactSum(QuantityAfter(last'.id), last'.payload.amount,
                                 QuantityBefore(last'.id))
             ELSE storage' = storage]_vars

\* C14: add_product and update_product return InvalidOperation exactly when
\* the name is blank after trimming or the quantity is 0; update_product on a
\* live id and add_product succeed for every other payload, and the record
\* they store has a non-blank name and a quantity above 0.
C14_UniformValidation ==
    (last.op \in {"add_product", "update_product"}) =>
        /\ (last.kind = "InvalidOperation") <=> InvalidProductPayload(last.payload)
        /\ (~InvalidProductPayload(last.payload)
               /\ (last.op = "add_product" \/ last.id \in Live)) => last.kind = "Ok"
        /\ last.kind = "Ok" =>
               /\ ~IsBlank(Returned.name)
               /\ Returned.quantity # <<0, 0>>
               /\ Rec(Returned.id) = Returned

\* update_product accepted a name with surrounding whitespace on a live record
C14_Witness ==
    /\ last.op = "update_product" /\ last.kind = "Ok"
    /\ last.payload.name = <<32, 98>>
    /\ Returned.created_at < now

\* C15: the counter never decreases; it changes only in a successful
\* add_product, which raises it by exactly 1, and every other call, failed
\* or not, leaves it unchanged.
C15_CounterOnlyByAdd ==
    [][/\ counter' >= counter
       /\ counter' # counter => (CallStep("add_product") /\ last'.kind = "Ok")
       /\ (CallStep("add_product") /\ last'.kind = "Ok") => counter' = counter + 1
       /\ (CallStep("add_product") /\ last'.kind # "Ok") => counter' = counter]_vars

\* a record was removed after two ids had been issued
C15_Witness ==
    /\ last.op = "remove_product" /\ last.kind = "Ok"
    /\ counter = 2

\* C16: a successful update_product sets name, category and quantity to the
\* payload's values and keeps id and created_at; a successful add_quantity or
\* offload_quantity keeps id, name, category and created_at; no step changes
\* the id or created_at of a record that stays live.
C16_MutationFrame ==
    [][/\ (CallStep("update_product") /\ last'.kind = "Ok") =>
              /\ last'.id \in Live /\ last'.id \in Live'
              /\ RecIn(storage', last'.id).name = last'.payload.name
              /\ RecIn(storage', last'.id).category = last'.payload.category
              /\ RecIn(storage', last'.id).quantity = last'.payload.quantity
       /\ ((CallStep("add_quantity") \/ CallStep("offload_quantity"))
              /\ last'.kind = "Ok") =>
              /\ last'.id \in Live /\ last'.id \in Live'
              /\ RecIn(storage', last'.id).name = Rec(last'.id).name
              /\ RecIn(storage', last'.id).category = Rec(last'.id).category
       /\ \A k \in Live \cap Live' :
              /\ RecIn(storage', k).id = Rec(k).id
              /\ RecIn(storage', k).created_at = Rec(k).created_at]_vars

\* an update_product at time 1 wrote its payload into a record created at
\* time 0
C16_Witness ==
    /\ last.op = "update_product" /\ last.kind = "Ok"
    /\ Returned.created_at = 0
    /\ Returned.updated_at = Some(1)
    /\ Returned.name = last.payload.name
    /\ Returned.category = last.payload.category

\* C17: after every step a live record's updated_at is absent exactly when
\* no update_product, add_quantity or offload_quantity has succeeded on it
\* since its creation (touched holds the records on which one has); a
\* successful mutation sets it to the current time and a call that does not
\* succeed sets nothing.
C17_UpdatedAtTracksMutation ==
    [][/\ \A id \in Live' :
              (RecIn(storage', id).updated_at = None) <=> (id \notin touched')
       /\ (CallStep("add_product") /\ last'.kind = "Ok") =>
              RecIn(storage', last'.val[1].id).updated_at = None
       /\ \A op \in Adjusters : CallStep(op) =>
              IF last'.kind = "Ok"
              THEN RecIn(storage', last'.id).updated_at = Some(now)
              ELSE storage' = storage]_vars

\* one record was mutated at time 1 while another is still as created
C17_Witness ==
    /\ \E id \in Live : Rec(id).updated_at = None
    /\ \E id \in Live : Rec(id).updated_at = Some(1) /\ Rec(id).created_at = 0
    /\ last.op = "add_quantity" /\ last.kind = "Ok"

\* C18: no call takes a borrow of the counter cell or of the record map that
\* the cell's borrow flag forbids, and every call ends with both cells free.
C18_NoDoubleBorrow ==
    /\ ~cells.panicked
    /\ cells.ID_COUNTER = 0
    /\ cells.STORAGE = 0

\* the lookup-then-insert of offload_quantity ran after two allocations
C18_Witness ==
    /\ last.op = "offload_quantity" /\ last.kind = "Ok"
    /\ counter = 2
    /\ ~cells.panicked

\* C19: every record sits under the key equal to its own id, and the id the
\* next add_product would assign (the counter's value) is not the key of a
\* live record.
C19_KeysAreIds ==
    /\ \A k \in Live : Rec(k).id = k
    /\ counter \notin Live
    /\ \A k \in Live : k < counter

\* the second add_product has just stored its record next to the first
C19_Witness ==
    /\ last.op = "add_product" /\ last.kind = "Ok"
    /\ Live = {0, 1}

\* C20: update_product, add_quantity, offload_quantity and remove_product on
\* an id leave every record with another id as it was and create no record;
\* add_product leaves every existing record as it was; get_product and
\* get_stock change neither the map nor the counter.
C20_OneRecordPerCall ==
    [][/\ \A op \in Adjusters \cup {"remove_product"} : CallStep(op) =>
              /\ \A k \in Live \ {last'.id} : k \in Live' /\ storage'[k] = storage[k]
              /\ Live' \subseteq Live
       /\ CallStep("add_product") =>
              \A k \in Live : k \in Live' /\ storage'[k] = storage[k]
       /\ (CallStep("get_product") \/ CallStep("get_stock")) =>
              (storage' = storage /\ counter' = counter)]_vars

\* one of two records was removed and the other is still there
C20_Witness ==
    /\ last.op = "remove_product" /\ last.kind = "Ok"
    /\ Cardinality(Live) = 1
    /\ Live \cap retired = {}
    /\ Cardinality(retired) = 1
====
